---- MODULE Spec2Model ----
(***************************************************************************)
(* packrattle: the Parser graph of src/src/parser.ts (construction, lazy   *)
(* resolution, the canonicalization cache, execute / consume / run / map). *)
(* Strings of the program (names, descriptions, cache keys, error          *)
(* messages, thunk tags) are modelled as strings; parsers are addressed by *)
(* their id, which is their index in the heap.                             *)
(***************************************************************************)
EXTENDS Integers, Sequences, FiniteSets, TLC

(* ------------------------------ bounds --------------------------------- *)

\* most Parser objects a client builds
MaxParsers == 3
\* most lazy children handed to one alt(...)
MaxKids == 2
\* zero-argument functions (thunks) a grammar can mention
NumThunks == 1
\* cap on the invocation counter of one thunk
MaxCalls == 2
\* native call-stack depth at which the runtime raises RangeError
StackLimit == 12

(* --------------------------- lazy references --------------------------- *)
\* LazyParser values (parser.ts 7-9), tagged by runtime type:
\*   "P" a Parser (n = id), "T" a function (n = thunk number), "S" a string,
\*   "R" a RegExp, "A" an array, "U" anything else (undefined).
\* "X" only describes a thunk body: the thunk throws.
PRef(j) == [k |-> "P", n |-> j]
TRef(t) == [k |-> "T", n |-> t]
StrLit == [k |-> "S", n |-> 0]
RegexLit == [k |-> "R", n |-> 0]
ArrayLit == [k |-> "A", n |-> 0]
Undef == [k |-> "U", n |-> 0]
Throws == [k |-> "X", n |-> 0]

Thunks == 1..NumThunks

\* what the body of a thunk may evaluate to
\* (a body naming a parser that is not built yet evaluates to undefined)
ThunkBodies == {PRef(j) : j \in 1..MaxParsers} \cup {RegexLit, ArrayLit, Throws}

\* JavaScript truthiness of a LazyParser2 value stored in a FunctionCache
Truthy(v) == v.k # "U"

NoOptions == [children |-> <<>>, cacheable |-> FALSE, describe |-> ""]
NoMatcher == [kind |-> "", lit |-> "", args |-> <<>>]

VARIABLES
    heap,       \* the Parser objects, by id
    ParserId,   \* parser.ts 40
    cache,      \* __cache, parser.ts 43
    LazyId,     \* parser.ts 187
    thunkRet,   \* the body of each thunk: what calling it yields
    thunkTag,   \* parser[ID] of each thunk, "" while it has none
    count,      \* how often each thunk has been invoked so far
    callee,     \* the parser every client call so far was made on (0: no call yet, -1: several)
    failed,     \* some client call has thrown
    last,       \* the last client call and its outcome
    eng         \* the Engine of the execute() in progress, step by step

vars == <<heap, ParserId, cache, LazyId, thunkRet, thunkTag, count, callee, failed, last, eng>>

EmptyMap == [x \in {} |-> 0]

NoSpan == [start |-> 0, end |-> 0]

NoError == [kind |-> "", msg |-> "", base |-> "", path |-> <<>>, span |-> NoSpan]

\* no Match: the engine has produced nothing
NoMatch == [kind |-> "", span |-> NoSpan, value |-> "", message |-> ""]

\* a client call and its outcome: ret is the parser resolve returned, match
\* the Match the engine produced, value what run returned, err what was thrown.
\* pass / hits: per thunk, its invocations / its FunctionCache hits in the call;
\* raised: something was thrown inside the call; mutated: the call changed a
\* parser or the cache; changed: it changed a parser, the cache or a thunk; repeat: the call is a resolve() that follows
\* a resolve() of the same parser, or of the parser this one is, that returned
\* prevRet; clean: no earlier call has thrown.
NoCall == [op |-> "", p |-> 0, input |-> <<>>, ok |-> TRUE, ret |-> 0, value |-> "",
           match |-> NoMatch, err |-> NoError,
           pass |-> [t \in Thunks |-> 0], hits |-> [t \in Thunks |-> 0],
           raised |-> FALSE, mutated |-> FALSE, changed |-> FALSE, repeat |-> FALSE, prevRet |-> 0,
           clean |-> TRUE]

\* no Engine: no execute() is in progress. queue: the pending units of work;
\* memo: the Match of each completed (parser, position) pair; waiting: the
\* continuations of each pair whose matcher has started; result: the Match
\* handed to the continuation of execute. History of the execution: runs, how
\* often the matcher of each pair has been run; sched, every unit of work
\* scheduled; got, every Match handed to a continuation; combined, the chains
\* (parser, position) whose combine was called; steps, units popped; execs,
\* the executions finished.
NoEngine == [on |-> FALSE, root |-> 0, input |-> <<>>, queue |-> <<>>, memo |-> EmptyMap,
             waiting |-> EmptyMap, result |-> NoMatch, crashed |-> FALSE,
             runs |-> EmptyMap, sched |-> {}, got |-> {}, combined |-> {}, steps |-> 0,
             execs |-> 0]

Init ==
    /\ heap = <<>>
    /\ ParserId = 1
    /\ cache = EmptyMap
    /\ LazyId = 0
    /\ thunkRet \in [Thunks -> ThunkBodies]
    /\ thunkTag = [t \in Thunks |-> ""]
    /\ count = [t \in Thunks |-> 0]
    /\ callee = 0
    /\ failed = FALSE
    /\ last = NoCall
    /\ eng = NoEngine

(* ------------------------------ results -------------------------------- *)
\* Every step of resolve threads the program state st and yields a result:
\* ok with a value, or a thrown error.
Ok(st, v) == [st |-> st, ok |-> TRUE, val |-> v, err |-> NoError]

\* throw new <kind>(msg); path is the names of the resolve frames that are
\* running their try block (parser.ts 99-101) at the throw, innermost first
Throw(st, kind, msg, path) ==
    [st |-> [st EXCEPT !.raised = TRUE], ok |-> FALSE, val |-> 0,
     err |-> [kind |-> kind, msg |-> msg, base |-> msg, path |-> path, span |-> NoSpan]]

RECURSIVE Names(_, _)
Names(h, stack) ==
    IF stack = <<>> THEN <<>> ELSE <<h[Head(stack)].name>> \o Names(h, Tail(stack))

\* the one element of a singleton set. The({F(r) : r \in {e}}) evaluates e
\* once and names its value r in F.
The(S) == CHOOSE y \in S : TRUE

(* ------------------------------- unlazy -------------------------------- *)
\* parser.ts 199-202: give the thunk an id on first sight
Tagged(st, t) ==
    IF st.thunkTag[t] = ""
    THEN [st EXCEPT !.thunkTag[t] = ToString(st.LazyId), !.LazyId = st.LazyId + 1]
    ELSE st

\* Force without line 209: the thunk's result is not stored
ForceUnstored(st, t, path) ==
    LET id == st.thunkTag[t]
        body == thunkRet[t]
        called == [st EXCEPT !.count[t] = @ + 1, !.pass[t] = @ + 1]
        got == IF body.k = "P" /\ body.n > Len(st.heap) THEN Undef ELSE body
    IN  IF id \in DOMAIN st.fc /\ Truthy(st.fc[id])
        THEN Ok([st EXCEPT !.hits[t] = @ + 1], st.fc[id])
        ELSE IF body.k = "X" THEN Throw(called, "Error", "thunk failed", path)
        ELSE Ok(called, got)

\* parser.ts 204-210: the value of thunk t, from the FunctionCache or by calling it
Force(st, t, path) ==
    LET id == st.thunkTag[t]
        body == thunkRet[t]
        called == [st EXCEPT !.count[t] = @ + 1, !.pass[t] = @ + 1]
        got == IF body.k = "P" /\ body.n > Len(st.heap) THEN Undef ELSE body
    IN  IF id \in DOMAIN st.fc /\ Truthy(st.fc[id])
        THEN Ok([st EXCEPT !.hits[t] = @ + 1], st.fc[id])
        ELSE IF body.k = "X" THEN Throw(called, "Error", "thunk failed", path)
        ELSE Ok([called EXCEPT !.fc = (id :> got) @@ st.fc], got)

\* parser.ts 213-219: the implicit conversions and the final type test
Implicit(st, parser, path) ==
    IF parser.k \in {"S", "R", "A"} THEN Throw(st, "Error", "unimplemented", path)
    ELSE IF parser.k # "P" THEN Throw(st, "Error", "Unable to resolve parser: undefined", path)
    ELSE Ok(st, parser.n)

\* parser.ts 197-220. path: see Throw.
unlazy(st, ref, path) ==
    IF ref.k = "T"
    THEN The({IF f.ok THEN Implicit(f.st, f.val, path) ELSE f :
              f \in {The({Force(st1, ref.n, path) : st1 \in {Tagged(st, ref.n)}})}})
    ELSE Implicit(st, ref, path)

(* --------------------------- getDescription ---------------------------- *)
\* defaultDescribe, parser.ts 33-38 (join is Array.prototype.join)
RECURSIVE Join(_, _)
Join(list, sep) ==
    IF list = <<>> THEN ""
    ELSE IF Len(list) = 1 THEN list[1]
    ELSE list[1] \o sep \o Join(Tail(list), sep)

defaultDescribe(name, list) ==
    IF Len(list) = 0 THEN name ELSE name \o ":" \o Join(list, ",")

\* parser.ts 140: options.describe || defaultDescribe(name). A describer an
\* option record carries is a constant one (it ignores the children).
Describe(n, list) ==
    IF n.options.describe # "" THEN n.options.describe ELSE defaultDescribe(n.name, list)

\* parser.ts 132-142; depth is the native call depth, path as in Throw
RECURSIVE getDescription(_, _, _, _)
RECURSIVE DescribeChildren(_, _, _, _, _, _)

\* parser.ts 136-138: this.children.map(...) from child i on
DescribeChildren(st, kids, i, acc, depth, path) ==
    IF i > Len(kids) THEN Ok(st, acc)
    ELSE LET c == kids[i]
             wrap == st.heap[c].hasChildren /\ Len(st.heap[c].children) > 1
         IN  The({IF ~r.ok THEN r
                  ELSE DescribeChildren(r.st, kids, i + 1,
                           Append(acc, IF wrap THEN "(" \o r.val \o ")" ELSE r.val), depth, path) :
                  r \in {getDescription(st, c, depth + 1, path)}})

\* parser.ts 139-141, once the children are described as list
Described(st, p, list, path) ==
    LET n == st.heap[p] IN
    IF ~n.hasOptions
    THEN Throw([st EXCEPT !.heap[p].recursing = FALSE], "TypeError",
               "Cannot read property 'describe' of undefined", path)
    ELSE Ok([st EXCEPT !.heap[p].recursing = FALSE,
                       !.heap[p].description = Describe(n, list)], Describe(n, list))

getDescription(st, p, depth, path) ==
    LET n == st.heap[p] IN
    IF depth > StackLimit THEN Throw(st, "RangeError", "Maximum call stack size exceeded", path)
    ELSE IF n.description # "" THEN Ok(st, n.description)
    ELSE IF n.recursing THEN Ok(st, "...")
    ELSE IF ~n.hasChildren
         THEN Throw([st EXCEPT !.heap[p].recursing = TRUE], "TypeError",
                    "Cannot read property 'map' of undefined", path)
         ELSE The({IF ~r.ok THEN r ELSE Described(r.st, p, r.val, path) :
                   r \in {DescribeChildren([st EXCEPT !.heap[p].recursing = TRUE],
                                           n.children, 1, <<>>, depth, path)}})

(* ------------------------------- resolve ------------------------------- *)
\* quote of ./strings (parser.ts 5). s = "" stands for undefined, on which
\* the helper either throws or renders the text "undefined".
QuoteUndefined == {"throw", "text"}

Quote(s) == "\"" \o s \o "\""

RECURSIVE QuoteKeys(_, _)
QuoteKeys(h, kids) ==
    IF kids = <<>> THEN <<>> ELSE <<Quote(h[Head(kids)].cacheKey)>> \o QuoteKeys(h, Tail(kids))

\* the catch block without line 103: the error is rethrown as it came
AnnotateNone(r, name) == r

\* parser.ts 103: error.message += " (inside " + this.name + ")"
Annotate(r, name) ==
    [r EXCEPT !.err.msg = @ \o " (inside " \o name \o ")"]

\* parser.ts 100: (this.options.children || []).map(p => unlazy(p, functionCache))
RECURSIVE UnlazyAll(_, _, _, _, _)
UnlazyAll(st, refs, i, acc, path) ==
    IF i > Len(refs) THEN Ok(st, acc)
    ELSE The({IF ~r.ok THEN r ELSE UnlazyAll(r.st, refs, i + 1, Append(acc, r.val), path) :
              r \in {unlazy(st, refs[i], path)}})

\* parser.ts 124: the matcher a generator builds from the resolved children.
\* A map generator closes over the parser map() was called on (parser.ts 173).
generateMatcher(n, kids) ==
    [kind |-> n.gen.kind, lit |-> n.gen.lit,
     args |-> IF n.gen.kind = "map" THEN <<n.gen.origin>> ELSE kids]

\* cacheKeyOf without the test of line 114: an inner node always builds a key
cacheKeyOfAny(st, p) ==
    LET n == st.heap[p] IN
    IF Len(n.children) = 0
    THEN n.name \o ":" \o Quote(IF n.description = "" THEN "undefined" ELSE n.description)
    ELSE n.name \o "(" \o Join(QuoteKeys(st.heap, n.children), ",") \o ")"

\* parser.ts 109-116: the cache key this node computes for itself, "" for none
\* (undefined); a leaf quotes its description, an inner node its children's keys
cacheKeyOf(st, p) ==
    LET n == st.heap[p] IN
    IF Len(n.children) = 0
    THEN n.name \o ":" \o Quote(IF n.description = "" THEN "undefined" ELSE n.description)
    ELSE IF \A i \in 1..Len(n.children) : st.heap[n.children[i]].cacheKey # ""
         THEN n.name \o "(" \o Join(QuoteKeys(st.heap, n.children), ",") \o ")"
         ELSE ""

\* parser.ts 124-128
Finish(st, p) ==
    LET n == st.heap[p] IN
    Ok([st EXCEPT !.heap[p].matcher = generateMatcher(n, n.children),
                  !.heap[p].hasOptions = FALSE,
                  !.heap[p].options = NoOptions,
                  !.heap[p].hasGen = FALSE], p)

\* Register with the key kept in a local: this.cacheKey is never assigned
RegisterLocalKey(st, p, key) ==
    IF key = "" THEN Finish(st, p)
    ELSE IF key \in DOMAIN st.cache THEN Ok(st, st.cache[key])
    ELSE Finish([st EXCEPT !.cache = (key :> p) @@ st.cache], p)

\* Register without the lookup of line 119: this parser takes the key over
RegisterSelf(st, p, key) ==
    IF key = "" THEN Finish(st, p)
    ELSE Finish([st EXCEPT !.heap[p].cacheKey = key, !.cache = (key :> p) @@ st.cache], p)

\* parser.ts 118-128, with this.cacheKey = key ("" for none)
Register(st, p, key) ==
    IF key = "" THEN Finish(st, p)
    ELSE IF key \in DOMAIN st.cache
    THEN Ok([st EXCEPT !.heap[p].cacheKey = key], st.cache[key])
    ELSE Finish([st EXCEPT !.heap[p].cacheKey = key, !.cache = (key :> p) @@ st.cache], p)

\* parser.ts 109-128, after getDescription
Canonicalize(st, p, path) ==
    LET n == st.heap[p] IN
    IF ~n.options.cacheable THEN Finish(st, p)
    ELSE IF Len(n.children) = 0 /\ n.description = "" /\ st.quoteUndefined = "throw"
         THEN Throw(st, "TypeError", "Cannot read property 'replace' of undefined", path)
    ELSE The({Register(st, p, key) : key \in {cacheKeyOf(st, p)}})

RECURSIVE resolve(_, _, _)
RECURSIVE ResolveAll(_, _, _, _, _)

\* parser.ts 101: this.children.map(p => p.resolve(functionCache))
ResolveAll(st, kids, i, acc, stack) ==
    IF i > Len(kids) THEN Ok(st, acc)
    ELSE The({IF ~r.ok THEN r ELSE ResolveAll(r.st, kids, i + 1, Append(acc, r.val), stack) :
              r \in {resolve(st, kids[i], stack)}})

\* parser.ts 107-128, with the resolved children kids
Complete(st, p, kids, depth, path) ==
    The({IF ~d.ok THEN d ELSE Canonicalize(d.st, p, path) :
         d \in {getDescription([st EXCEPT !.heap[p].children = kids], p, depth, path)}})

\* parser.ts 101-128, with the forced children kids
ResolveChildren(st, p, kids, stack) ==
    The({IF ~r.ok THEN Annotate(r, st.heap[p].name)
         ELSE Complete(r.st, p, r.val, Len(stack) + 1, Names(st.heap, stack)) :
         r \in {ResolveAll([st EXCEPT !.heap[p].children = kids, !.heap[p].hasChildren = TRUE],
                           kids, 1, <<>>, <<p>> \o stack)}})

\* resolve without line 96: a parser that has a cache key answers for itself
resolveUnkeyed(st, p, stack) ==
    LET n == st.heap[p] IN
    IF Len(stack) >= StackLimit
    THEN Throw(st, "RangeError", "Maximum call stack size exceeded", Names(st.heap, stack))
    ELSE IF n.hasChildren THEN Ok(st, p)
    ELSE The({IF ~u.ok THEN Annotate(u, n.name) ELSE ResolveChildren(u.st, p, u.val, stack) :
              u \in {UnlazyAll(st, n.options.children, 1, <<>>,
                               <<n.name>> \o Names(st.heap, stack))}})

\* parser.ts 95-129. stack: the resolve frames running their try block
\* around this call, innermost first.
resolve(st, p, stack) ==
    LET n == st.heap[p] IN
    IF Len(stack) >= StackLimit
    THEN Throw(st, "RangeError", "Maximum call stack size exceeded", Names(st.heap, stack))
    ELSE IF n.cacheKey # ""
    THEN Ok(st, IF n.cacheKey \in DOMAIN st.cache THEN st.cache[n.cacheKey] ELSE 0)
    ELSE IF n.hasChildren THEN Ok(st, p)
    ELSE The({IF ~u.ok THEN Annotate(u, n.name) ELSE ResolveChildren(u.st, p, u.val, stack) :
              u \in {UnlazyAll(st, n.options.children, 1, <<>>,
                               <<n.name>> \o Names(st.heap, stack))}})

(* ---------------------------- construction ----------------------------- *)
\* parser.ts 77-83: new Parser(name, options, generateMatcher); decl keeps the
\* options the parser was built with
NewNode(name, options, gen) ==
    [name |-> name, options |-> options, hasOptions |-> TRUE, gen |-> gen, hasGen |-> TRUE,
     decl |-> options,
     children |-> <<>>, hasChildren |-> FALSE, matcher |-> NoMatcher,
     description |-> "", cacheKey |-> "", recursing |-> FALSE]

Gen(kind, lit, origin) == [kind |-> kind, lit |-> lit, origin |-> origin]

\* the literals of the leaf parsers
Literals == {"a", "b"}

\* simple.string(lit): a cacheable leaf described by its quoted literal
StringNode(lit) ==
    NewNode("string", [children |-> <<>>, cacheable |-> TRUE, describe |-> Quote(lit)],
            Gen("string", lit, 0))

\* simple.end(): a cacheable leaf
EndNode == NewNode("end", [children |-> <<>>, cacheable |-> TRUE, describe |-> ""], Gen("end", "", 0))

\* alt(...kids): a cacheable combinator over lazy children
AltNode(kids) ==
    NewNode("alt", [children |-> kids, cacheable |-> TRUE, describe |-> ""], Gen("alt", "", 0))

\* chain(a, b, combine): not cacheable (it closes over combine)
ChainNode(a, b, combine) ==
    NewNode("chain", [children |-> <<a, b>>, cacheable |-> FALSE, describe |-> ""],
            Gen("chain", combine, 0))

\* parser.ts 171: new Parser("map", { children: [ this ] }, ...)
MapNode(p, f) ==
    NewNode("map", [children |-> <<PRef(p)>>, cacheable |-> FALSE, describe |-> ""],
            Gen("map", f, p))

Ids == 1..Len(heap)

\* the lazy references a client can hand to a combinator
LazyRefs == {PRef(j) : j \in Ids} \cup {TRef(t) : t \in Thunks} \cup {StrLit}

KidLists == UNION {[1..k -> LazyRefs] : k \in 1..MaxKids}

Allocate(nodes, op) ==
    /\ heap' = heap \o nodes
    /\ ParserId' = ParserId + Len(nodes)
    /\ last' = [NoCall EXCEPT !.op = op, !.p = ParserId + Len(nodes) - 1]
    /\ UNCHANGED <<cache, LazyId, thunkRet, thunkTag, count, callee, failed, eng>>

NewString(limit) ==
    \E lit \in Literals :
        /\ Len(heap) < limit
        /\ Allocate(<<StringNode(lit)>>, "string")

NewAlt(limit, lists) ==
    \E kids \in lists :
        /\ Len(heap) < limit
        /\ Allocate(<<AltNode(kids)>>, "alt")

\* parser.ts 170-182
Map(limit, fns) ==
    \E p \in Ids, f \in fns :
        /\ Len(heap) < limit
        /\ Allocate(<<MapNode(p, f)>>, "map")

\* chain(a, b, combine) over two parsers
NewChain(limit, combines) ==
    \E a \in Ids, b \in Ids, combine \in combines :
        /\ Len(heap) < limit
        /\ Allocate(<<ChainNode(PRef(a), PRef(b), combine)>>, "chain")

\* parser.ts 149-151: chain(this, simple.end(), (a, _b) => a)
ConsumeNodes(p) == <<EndNode, ChainNode(PRef(p), PRef(ParserId), "first")>>

Consume(limit) ==
    \E p \in Ids :
        /\ Len(heap) + 2 <= limit
        /\ Allocate(ConsumeNodes(p), "consume")

(* ------------------------------- calls --------------------------------- *)
\* the program state a top-level call starts from: a fresh FunctionCache
\* (parser.ts 95, the default argument)
Enter(q) ==
    [heap |-> heap, cache |-> cache, fc |-> EmptyMap, thunkTag |-> thunkTag,
     LazyId |-> LazyId, count |-> count, pass |-> [t \in Thunks |-> 0],
     hits |-> [t \in Thunks |-> 0], raised |-> FALSE, quoteUndefined |-> q]

\* quote meets undefined only in a pass that starts with some recursing flag
\* left set, so only then is the helper's behaviour an input of the call
QuoteChoices == IF \E i \in Ids : heap[i].recursing THEN QuoteUndefined ELSE {"throw"}

Mutated(st) == st.heap # heap \/ st.cache # cache

Changed(st) ==
    \/ Mutated(st)
    \/ st.thunkTag # thunkTag
    \/ st.LazyId # LazyId
    \/ st.count # count

\* the call op on parser p with input s ended as x
Record(op, p, s, x) ==
    /\ \A t \in Thunks : x.st.count[t] <= MaxCalls
    /\ heap' = x.st.heap
    /\ ParserId' = Len(x.st.heap) + 1
    /\ cache' = x.st.cache
    /\ thunkTag' = x.st.thunkTag
    /\ LazyId' = x.st.LazyId
    /\ count' = x.st.count
    /\ callee' = IF callee \in {0, p} THEN p ELSE -1
    /\ failed' = (failed \/ ~x.ok)
    /\ last' = [NoCall EXCEPT !.op = op, !.p = p, !.input = s, !.ok = x.ok, !.err = x.err,
                              !.ret = IF op = "resolve" THEN x.val ELSE 0,
                              !.match = IF op = "resolve" THEN NoMatch ELSE x.match,
                              !.value = IF op = "run" THEN x.val ELSE "",
                              !.pass = x.st.pass, !.hits = x.st.hits,
                              !.raised = x.st.raised, !.mutated = Mutated(x.st),
                              !.changed = Changed(x.st),
                              !.repeat = (op = "resolve" /\ last.op = "resolve" /\ last.ok
                                              /\ p \in {last.p, last.ret}),
                              !.prevRet = IF op = "resolve" /\ last.op = "resolve" /\ last.ok
                                               /\ p \in {last.p, last.ret}
                                          THEN last.ret ELSE 0,
                              !.clean = ~failed]
    /\ UNCHANGED thunkRet

\* a call that is over when it returns: no Engine is left running
Leave(op, p, s, x) == Record(op, p, s, x) /\ UNCHANGED eng

(* ------------------------------- engine -------------------------------- *)
\* The matchers of the combinators and Engine.execute are not part of
\* parser.ts; they follow sections 4.2 and 4.3 of the specification. One
\* execution is computed as a whole: the Match of parser p at position i of
\* the sequence s.
MaxLen == 2

\* the input sequences: items are the literals
Inputs == UNION {[1..k -> Literals] : k \in 0..MaxLen}

MatchSuccess(start, end, value) ==
    [kind |-> "success", span |-> [start |-> start, end |-> end], value |-> value, message |-> ""]

MatchFailure(message, start, end) ==
    [kind |-> "failure", span |-> [start |-> start, end |-> end], value |-> "", message |-> message]

\* the reject sentinel (section 8 of the specification)
Reject == "REJECT"

\* the callbacks clients pass to map: "f" is total; "veto" returns the reject
\* sentinel for the value "a"
Apply(f, value) ==
    IF f = "veto" /\ value = "a" THEN Reject ELSE "f(" \o value \o ")"

\* the combine callbacks of chain: consume's (a, _b) => a (parser.ts 150) and
\* one that joins both values
Combine(combine, a, b) ==
    IF combine = "first" THEN a ELSE a \o "-" \o b

\* mapMatch (matcher): f on the success branch, a failure unchanged
mapMatch(m, value) ==
    IF m.kind = "success" THEN MatchSuccess(m.span.start, m.span.end, value) ELSE m

\* alt that keeps the failure of the alternative it tried last
Latest(best, m) == m

\* alt, all alternatives failed: the failure reaching furthest, the first
\* declared among equals
Farthest(best, m) ==
    IF best.kind = "" \/ m.span.end > best.span.end THEN m ELSE best

RECURSIVE matchAt(_, _, _, _, _)
RECURSIVE matchAlt(_, _, _, _, _, _, _)

matchAlt(h, alts, k, s, i, best, active) ==
    IF k > Len(alts) THEN best
    ELSE The({IF m.kind \in {"", "success"} THEN m
              ELSE matchAlt(h, alts, k + 1, s, i, Farthest(best, m), active) :
              m \in {matchAt(h, alts[k], s, i, active)}})

\* chain: the second parser from where the first one ended (a: its Match)
matchSecond(h, second, combine, s, a, active) ==
    IF a.kind # "success" THEN a
    ELSE The({IF b.kind # "success" THEN b
              ELSE MatchSuccess(a.span.start, b.span.end, Combine(combine, a.value, b.value)) :
              b \in {matchAt(h, second, s, a.span.end, active)}})

\* active: the (parser, position) pairs being matched; a pair that needs its
\* own result never completes, and neither does a parser without a matcher
matchAt(h, p, s, i, active) ==
    LET m == h[p].matcher IN
    IF m.kind = "" \/ <<p, i>> \in active THEN NoMatch
    ELSE IF m.kind = "string"
    THEN IF i < Len(s) /\ s[i + 1] = m.lit
         THEN MatchSuccess(i, i + 1, m.lit)
         ELSE MatchFailure("Expected " \o Quote(m.lit), i, i)
    ELSE IF m.kind = "end"
    THEN IF i = Len(s) THEN MatchSuccess(i, i, "null") ELSE MatchFailure("Expected end", i, i)
    ELSE IF m.kind = "chain"
    THEN The({matchSecond(h, m.args[2], m.lit, s, a, active \cup {<<p, i>>}) :
              a \in {matchAt(h, m.args[1], s, i, active \cup {<<p, i>>})}})
    ELSE IF m.kind = "alt"
    THEN matchAlt(h, m.args, 1, s, i, NoMatch, active \cup {<<p, i>>})
    ELSE The({mapMatch(a, Apply(m.lit, a.value)) :
              a \in {matchAt(h, m.args[1], s, i, active \cup {<<p, i>>})}})

\* new Engine(stream, options).execute(parser), from position 0
EngineExecute(h, p, s) == matchAt(h, p, s, 0, {})

\* a client calls p.resolve()
Resolve ==
    \E p \in Ids, q \in QuoteChoices :
        \E r \in {resolve(Enter(q), p, <<>>)} : Leave("resolve", p, <<>>, r)

\* the outcome of a call that got no Match out of the engine
EngineError == [NoError EXCEPT !.kind = "TypeError", !.msg = "matcher is not a function"]

\* parser.ts 145: the engine on the parser this.resolve() returned (r)
Executed(r, s) ==
    IF ~r.ok THEN [st |-> r.st, ok |-> FALSE, val |-> NoMatch, err |-> r.err, match |-> NoMatch]
    ELSE The({[st |-> r.st, ok |-> m.kind # "", val |-> m, match |-> m,
               err |-> IF m.kind = "" THEN EngineError ELSE NoError] :
              m \in {EngineExecute(r.st.heap, r.val, s)}})

\* parser.ts 144-146: new Engine(stream, options).execute(this.resolve()),
\* from program state st0 (its FunctionCache is started afresh)
execute(st0, p, s) ==
    The({Executed(r, s) : r \in {resolve([st0 EXCEPT !.fc = EmptyMap], p, <<>>)}})

\* a client calls p.execute(s)
Execute ==
    \E p \in Ids, q \in QuoteChoices, s \in Inputs :
        \E x \in {execute(Enter(q), p, s)} : Leave("execute", p, s, x)

\* lines 157-163 without the MatchFailure branch: the failure is handed back
ReturnedFailure(x) ==
    IF ~x.ok THEN [x EXCEPT !.val = ""]
    ELSE IF x.val.kind \in {"success", "failure"} THEN [x EXCEPT !.val = x.val.value]
    ELSE [x EXCEPT !.ok = FALSE, !.val = "",
                   !.err = [NoError EXCEPT !.kind = "Error", !.msg = "impossible"]]

\* parser.ts 157-163, on the outcome x of execute: rv is x.val
Returned(x) ==
    IF ~x.ok THEN [x EXCEPT !.val = ""]
    ELSE IF x.val.kind = "failure"
    THEN [x EXCEPT !.ok = FALSE, !.val = "",
                   !.err = [NoError EXCEPT !.kind = "ParseError", !.msg = x.val.message,
                                           !.span = x.val.span]]
    ELSE IF x.val.kind = "success" THEN [x EXCEPT !.val = x.val.value]
    ELSE [x EXCEPT !.ok = FALSE, !.val = "",
                   !.err = [NoError EXCEPT !.kind = "Error", !.msg = "impossible"]]

\* parser.ts 155: c.resolve().execute(stream, options) on the parser c that
\* this.consume() built
RunConsumed(st, c, s) ==
    The({IF ~r.ok
         THEN [st |-> r.st, ok |-> FALSE, val |-> "", err |-> r.err, match |-> NoMatch]
         ELSE The({Returned(x) : x \in {execute(r.st, r.val, s)}}) :
         r \in {resolve(st, c, <<>>)}})

\* run without this.consume(): the parser itself is resolved and executed
runUnconsumed(st0, p, s) == RunConsumed(st0, p, s)

\* parser.ts 149-151, 154-164: p.run(s) from program state st0; consume()
\* allocates the end parser and the chain
run(st0, p, s) ==
    RunConsumed([st0 EXCEPT !.heap = st0.heap \o ConsumeNodes(p)], Len(st0.heap) + 2, s)

\* most Parser objects a client builds before it calls execute or run
MaxRunParsers == 2
\* most calls of run
MaxRuns == 1

\* a client calls p.run(s)
Run ==
    \E p \in Ids, q \in QuoteChoices, s \in Inputs :
        /\ Len(heap) + 2 <= MaxRunParsers + 1 + 2 * MaxRuns
        /\ \E x \in {run(Enter(q), p, s)} : Leave("run", p, s, x)

Next == NewString(MaxParsers) \/ NewAlt(MaxParsers, KidLists) \/ Map(MaxParsers, {"f"}) \/ Consume(MaxParsers)
            \/ Resolve

Spec == Init /\ [][Next]_vars

\* clients that build a small grammar and then execute and run it
NextRun == NewString(MaxRunParsers) \/ NewAlt(MaxRunParsers, KidLists) \/ Map(MaxRunParsers, {"f"})
               \/ Consume(MaxRunParsers + 1) \/ Resolve \/ Execute \/ Run

\* their thunk names the first parser they build (a recursive grammar)
InitRun == Init /\ thunkRet = [t \in Thunks |-> PRef(1)]

SpecRun == InitRun /\ [][NextRun]_vars


(* ------------------------- the engine, step by step -------------------- *)
\* Sections 4.2 and 5 of the specification: the Engine keeps a queue of units
\* of work (parser, position, continuation), a memo table and, per pair, the
\* continuations waiting for its Match. A continuation is the rest of the
\* matcher that scheduled the unit: k names it, p and i are the pair it works
\* for, j the alternative it waits for, best the farthest failure so far, a the
\* Match of the first parser of a chain.
Cont(k, p, i, j, best, a) == [k |-> k, p |-> p, i |-> i, j |-> j, best |-> best, a |-> a]

\* the continuation of execute: it takes the Match of the root parser
RootCont == Cont("root", 0, 0, 0, NoMatch, NoMatch)

Unit(p, i, c) == [p |-> p, i |-> i, c |-> c]

\* engine.schedule(parser, position, continuation): the unit joins the queue
schedule(e, p, i, c) ==
    [e EXCEPT !.queue = Append(@, Unit(p, i, c)), !.sched = @ \cup {Unit(p, i, c)}]

\* the matcher of the pair is run once more
Ran(e, pair) ==
    [e EXCEPT !.runs = (pair :> (IF pair \in DOMAIN @ THEN @[pair] + 1 ELSE 1)) @@ @]

\* simple.string and simple.end at position i
matchLeaf(m, s, i) ==
    IF m.kind = "string"
    THEN IF i < Len(s) /\ s[i + 1] = m.lit
         THEN MatchSuccess(i, i + 1, m.lit)
         ELSE MatchFailure("Expected " \o Quote(m.lit), i, i)
    ELSE IF i = Len(s) THEN MatchSuccess(i, i, "null") ELSE MatchFailure("Expected end", i, i)

RECURSIVE Settle(_, _, _, _)

\* alt that goes on to its next alternative whatever the last one concluded
altRacing(e, c, m) ==
    LET alts == heap[c.p].matcher.args IN
    IF c.j < Len(alts)
    THEN schedule(e, alts[c.j + 1], c.i,
                  Cont("alt", c.p, c.i, c.j + 1, Farthest(c.best, m), NoMatch))
    ELSE Settle(e, c.p, c.i, Farthest(c.best, m))

\* the continuation of alt, handed the Match m of alternative c.j: a success
\* is the Match of the alt; after a failure the next alternative is scheduled
\* at the same position; after the last one the farthest failure is the Match
altContinue(e, c, m) ==
    LET alts == heap[c.p].matcher.args IN
    IF m.kind = "success" THEN Settle(e, c.p, c.i, m)
    ELSE IF c.j < Len(alts)
    THEN schedule(e, alts[c.j + 1], c.i,
                  Cont("alt", c.p, c.i, c.j + 1, Farthest(c.best, m), NoMatch))
    ELSE Settle(e, c.p, c.i, Farthest(c.best, m))

\* chain that schedules its second parser where the chain itself started
chainFirstInPlace(e, c, m) ==
    IF m.kind # "success" THEN Settle(e, c.p, c.i, m)
    ELSE schedule(e, heap[c.p].matcher.args[2], c.i, Cont("chain2", c.p, c.i, 0, NoMatch, m))

\* the continuation of chain, handed the Match m of its first parser: a
\* failure is the Match of the chain, a success schedules the second parser
\* where the first one ended
chainFirst(e, c, m) ==
    IF m.kind # "success" THEN Settle(e, c.p, c.i, m)
    ELSE schedule(e, heap[c.p].matcher.args[2], m.span.end,
                  Cont("chain2", c.p, c.i, 0, NoMatch, m))

\* the continuation of chain, handed the Match m of its second parser; c.a is
\* the Match of the first
chainSecond(e, c, m) ==
    IF m.kind # "success" THEN Settle(e, c.p, c.i, m)
    ELSE Settle([e EXCEPT !.combined = @ \cup {<<c.p, c.i>>}], c.p, c.i,
                MatchSuccess(c.a.span.start, m.span.end,
                             Combine(heap[c.p].matcher.lit, c.a.value, m.value)))

\* parser.ts 173-179: the continuation of map, handed the Match m of the
\* parser it scheduled
mapContinue(e, c, m) ==
    Settle(e, c.p, c.i, mapMatch(m, Apply(heap[c.p].matcher.lit, m.value)))

\* continuation c, which waited for pair, is handed the Match m of the pair
Invoke(e0, pair, c, m) ==
    The({IF c.k = "root" THEN [e EXCEPT !.result = m]
         ELSE IF c.k = "alt" THEN altContinue(e, c, m)
         ELSE IF c.k = "chain1" THEN chainFirst(e, c, m)
         ELSE IF c.k = "chain2" THEN chainSecond(e, c, m)
         ELSE mapContinue(e, c, m) :
         e \in {[e0 EXCEPT !.got = @ \cup {[p |-> pair[1], i |-> pair[2], c |-> c, m |-> m]}]}})

RECURSIVE InvokeAll(_, _, _, _, _)
InvokeAll(e, pair, ws, k, m) ==
    IF k > Len(ws) THEN e ELSE InvokeAll(Invoke(e, pair, ws[k], m), pair, ws, k + 1, m)

\* the pair (p, i) is complete: its Match is stored in the memo table and
\* every continuation waiting for the pair is invoked with it
Settle(e, p, i, m) ==
    The({InvokeAll(e1, <<p, i>>, e.waiting[<<p, i>>], 1, m) :
         e1 \in {[e EXCEPT !.memo = (<<p, i>> :> m) @@ @,
                           !.waiting = [x \in DOMAIN @ \ {<<p, i>>} |-> @[x]]]}})

\* the matcher of parser p is run at position i: a leaf completes at once, a
\* combinator schedules its first child and goes on in a continuation
Match(e, p, i) ==
    LET n == heap[p].matcher IN
    IF n.kind \in {"string", "end"} THEN Settle(e, p, i, matchLeaf(n, e.input, i))
    ELSE IF n.kind = "alt"
    THEN schedule(e, n.args[1], i, Cont("alt", p, i, 1, NoMatch, NoMatch))
    ELSE IF n.kind = "chain"
    THEN schedule(e, n.args[1], i, Cont("chain1", p, i, 0, NoMatch, NoMatch))
    ELSE schedule(e, n.args[1], i, Cont("map", p, i, 0, NoMatch, NoMatch))

\* Pop without the memo table and the waiting lists: every unit runs its matcher
PopUnmemoized(e0) ==
    The({LET u == Head(e0.queue)
             pair == <<u.p, u.i>> IN
         IF heap[u.p].matcher = NoMatcher THEN [e EXCEPT !.crashed = TRUE]
         ELSE Match(Ran([e EXCEPT !.waiting = (pair :> <<u.c>>) @@ @], pair), u.p, u.i) :
         e \in {[e0 EXCEPT !.queue = Tail(@), !.steps = @ + 1]}})

\* one turn of the execution loop: the unit at the head of the queue is taken
\* off. A completed pair hands its memoized Match to the continuation, a pair
\* in progress puts the continuation with the waiting ones, a new pair runs
\* its matcher (a parser without one makes the Engine throw).
Pop(e0) ==
    The({LET u == Head(e0.queue)
             pair == <<u.p, u.i>> IN
         IF pair \in DOMAIN e.memo THEN Invoke(e, pair, u.c, e.memo[pair])
         ELSE IF pair \in DOMAIN e.waiting THEN [e EXCEPT !.waiting[pair] = Append(@, u.c)]
         ELSE IF heap[u.p].matcher = NoMatcher THEN [e EXCEPT !.crashed = TRUE]
         ELSE Match(Ran([e EXCEPT !.waiting = (pair :> <<u.c>>) @@ @], pair), u.p, u.i) :
         e \in {[e0 EXCEPT !.queue = Tail(@), !.steps = @ + 1]}})

\* most Parser objects a client builds before it calls execute step by step
MaxEngParsers == 4
\* most calls of execute that are run step by step
MaxExecs == 1

\* the children of an alt: parsers and thunks
EngKidLists ==
    UNION {[1..k -> {PRef(j) : j \in Ids} \cup {TRef(t) : t \in Thunks}] : k \in 1..MaxKids}

\* the client builds its grammar before it executes it
Build ==
    /\ ~eng.on
    /\ eng.execs = 0
    /\ \/ NewString(MaxEngParsers)
       \/ NewAlt(MaxEngParsers, EngKidLists)
       \/ NewChain(MaxEngParsers, {"join"})
       \/ Map(MaxEngParsers, {"f", "veto"})

\* parser.ts 144-146, up to the first turn of the loop: the client calls
\* execute(s) on the parser it built last; this.resolve() is run and the
\* Engine starts with the root parser at position 0
StartExecute ==
    /\ ~eng.on
    /\ eng.execs < MaxExecs
    /\ heap # <<>>
    /\ \E s \in Inputs, q \in QuoteChoices :
           \E r \in {resolve(Enter(q), Len(heap), <<>>)} :
               /\ Record("execute", Len(heap), s,
                         [st |-> r.st, ok |-> r.ok, val |-> NoMatch, match |-> NoMatch,
                          err |-> r.err])
               /\ eng' = IF r.ok
                         THEN schedule([NoEngine EXCEPT !.on = TRUE, !.root = r.val,
                                                        !.input = s, !.execs = eng.execs],
                                       r.val, 0, RootCont)
                         ELSE [eng EXCEPT !.execs = @ + 1]

\* the loop of Engine.execute, one unit of work at a time
Step ==
    /\ eng.on
    /\ ~eng.crashed
    /\ eng.queue # <<>>
    /\ eng' = Pop(eng)
    /\ UNCHANGED <<heap, ParserId, cache, LazyId, thunkRet, thunkTag, count, callee, failed, last>>

\* the loop is over: execute returns the Match its continuation was handed
FinishExecute ==
    /\ eng.on
    /\ eng.queue = <<>> \/ eng.crashed
    /\ last' = [last EXCEPT !.match = eng.result, !.ok = eng.result.kind # "",
                            !.err = IF eng.result.kind = "" THEN EngineError ELSE NoError]
    /\ failed' = (failed \/ eng.result.kind = "")
    /\ eng' = [eng EXCEPT !.on = FALSE, !.execs = @ + 1]
    /\ UNCHANGED <<heap, ParserId, cache, LazyId, thunkRet, thunkTag, count, callee>>

NextEngine == Build \/ StartExecute \/ Step \/ FinishExecute

\* clients that build a grammar and execute it; as in SpecRun their thunk names
\* the first parser they build
SpecEngine == InitRun /\ [][NextEngine]_vars

(* ----------------------------- properties ------------------------------ *)
\* the parser a lazy reference of a grammar stands for, if any: a thunk stands
\* for the parser it returns (parser.ts 198-219)
Target(ref) ==
    IF ref.k = "P" THEN {ref.n}
    ELSE IF ref.k = "T" /\ thunkRet[ref.n].k = "P" /\ thunkRet[ref.n].n \in Ids
    THEN {thunkRet[ref.n].n}
    ELSE {}

\* the parsers resolve() of a parser in todo visits (parser.ts 100-101): the
\* parsers themselves and, transitively, what their declared children stand for
RECURSIVE Grammar(_, _)
Grammar(todo, seen) ==
    IF todo = {} THEN seen
    ELSE LET p == CHOOSE x \in todo : TRUE
             kids == UNION {Target(heap[p].decl.children[i]) :
                            i \in 1..Len(heap[p].decl.children)}
         IN  Grammar((todo \cup kids) \ (seen \cup {p}), seen \cup {p})

\* the positions of the grammar of p that reference thunk t
References(p, t) ==
    {<<q, i>> \in Grammar({p}, {}) \X (1..MaxKids) :
        i <= Len(heap[q].decl.children) /\ heap[q].decl.children[i] = TRef(t)}

\* every reference of the grammar of p is a parser or a thunk returning one
ValidGrammar(p) ==
    \A q \in Grammar({p}, {}) : \A i \in 1..Len(heap[q].decl.children) :
        Target(heap[q].decl.children[i]) # {}

\* C1: after any sequence of run / execute / resolve calls on one parser p
\* whose grammar references a thunk from several positions, that thunk has
\* been invoked exactly once in total.
ThunkInvokedOnceInTotal ==
    \A t \in Thunks :
        (callee > 0 /\ last.op \in {"resolve", "execute", "run"}
            /\ Cardinality(References(callee, t)) >= 2) => count[t] = 1

\* C2: in one top-level resolve() every thunk is invoked at most once, however
\* many nodes reference it: a later unlazy of the thunk in the pass is served
\* from the FunctionCache, which the first invocation filled.
ThunkOncePerPass ==
    last.op = "resolve" =>
        \A t \in Thunks : last.pass[t] <= 1 /\ (last.hits[t] > 0 => last.pass[t] = 1)

\* a pass in which a thunk referenced once by each of several parsers was
\* invoked once and then served from the FunctionCache to another parser
ThunkSharedInPass ==
    /\ last.op = "resolve" /\ last.ok
    /\ \E t \in Thunks :
          /\ last.pass[t] = 1 /\ last.hits[t] >= 1
          /\ \A q \in Ids : Cardinality({i \in 1..Len(heap[q].decl.children) :
                                            heap[q].decl.children[i] = TRef(t)}) <= 1

\* C3: resolve() is idempotent: a resolve() of p that follows a resolve() of p
\* returns the same object r, r.resolve() returns r, and such a call invokes no
\* thunk, adds nothing to the cache and changes no field of any parser.
ResolveIdempotent ==
    last.repeat =>
        /\ last.ok
        /\ last.ret = last.prevRet
        /\ ~last.changed
        /\ \A t \in Thunks : last.pass[t] = 0

\* a repeated resolve() of a parser whose canonical object is another parser
ResolveAgainCanonical ==
    last.repeat /\ last.ok /\ last.ret # last.p /\ last.ret = last.prevRet

\* what p.resolve() returns for a parser that has been resolved (parser.ts
\* 96-97), 0 for one that has not
Canonical(p) ==
    IF heap[p].cacheKey # "" THEN cache[heap[p].cacheKey]
    ELSE IF heap[p].hasChildren THEN p
    ELSE 0

\* resolved parsers p and q are cacheable and have the same name and the same
\* resolved children, and as leaves the same description
SameStructure(p, q) ==
    /\ Canonical(p) # 0 /\ Canonical(q) # 0
    /\ heap[p].decl.cacheable /\ heap[q].decl.cacheable
    /\ heap[p].name = heap[q].name
    /\ heap[p].children = heap[q].children
    /\ Len(heap[p].children) = 0 => heap[p].description = heap[q].description

\* p has been given a cache key (parser.ts 111, 115)
Keyed(p) == heap[p].cacheKey # ""

RecursiveGrammarResolves ==
    (last.op = "resolve" /\ last.clean /\ ValidGrammar(last.p)) =>
        /\ last.ok
        /\ heap[last.ret].matcher # NoMatcher

\* C6: a resolve() that fails because a child thunk, a child constructor or a
\* child's resolution throws leaves every parser and the cache as they were.
FailedResolveKeepsNothing ==
    (last.op = "resolve" /\ ~last.ok /\ last.clean
        /\ last.err.base \in {"thunk failed", "Unable to resolve parser: undefined"}) =>
        ~last.mutated

\* C7: a forced reference that is a string, a regex or an array is converted
\* into a Parser and does not make resolve fail.
LiteralsAreConverted ==
    ~(last.op = "resolve" /\ ~last.ok /\ last.err.base = "unimplemented")

\* the message base after every frame of path, innermost first, has annotated it
RECURSIVE Annotated(_, _)
Annotated(base, path) ==
    IF path = <<>> THEN base
    ELSE Annotated(base \o " (inside " \o Head(path) \o ")", Tail(path))

\* C8: an error raised while a node forces or resolves a child is never
\* swallowed: the call fails, and the message carries " (inside <name>)" for
\* every node on the path from the failing child to the root, innermost first.
ErrorsAnnotatedInnermostFirst ==
    last.raised =>
        /\ ~last.ok
        /\ last.err.msg = Annotated(last.err.base, last.err.path)

\* an error that crossed two nodes of different names
ErrorCrossedTwoNodes ==
    /\ last.op = "resolve" /\ ~last.ok
    /\ Len(last.err.path) = 2
    /\ last.err.path[1] # last.err.path[2]
    /\ last.err.msg = Annotated(last.err.base, last.err.path)

\* C9: execute never throws a ParseError and returns the Match as a value; run
\* throws a ParseError with the message and span of the MatchFailure, and it
\* returns the value of the MatchSuccess otherwise.
ParseErrorOnlyByRun ==
    /\ last.op # "run" => last.err.kind # "ParseError"
    /\ (last.op = "execute" /\ last.ok) => last.match.kind \in {"success", "failure"}
    /\ last.op = "run" =>
          /\ last.match.kind = "failure" =>
                /\ ~last.ok
                /\ last.err.kind = "ParseError"
                /\ last.err.msg = last.match.message
                /\ last.err.span = last.match.span
          /\ last.match.kind = "success" => last.ok /\ last.value = last.match.value
          /\ last.err.kind = "ParseError" => last.match.kind = "failure"

\* a run that threw the ParseError of a failure past the start of the input
RunThrewParseError ==
    /\ last.op = "run" /\ ~last.ok
    /\ last.err.kind = "ParseError"
    /\ last.match.kind = "failure"
    /\ last.match.span.start > 0
    /\ last.err.span = last.match.span

\* the parsers a run of p asserts the end of input for: p and, if p is the
\* parser consume() built (parser.ts 150), the parser it was built from
Consumed(p) ==
    {p} \cup (IF heap[p].name = "chain" THEN Target(heap[p].decl.children[1]) ELSE {})

\* C10: if P matches a strict prefix of s, so that P.execute(s) is a
\* MatchSuccess ending before the end of s, then P.run(s) and P.consume().run(s)
\* fail with a ParseError; and a run that succeeds returns P's value.
WholeInputConsumed ==
    last.op = "run" =>
        \A P \in Consumed(last.p) : \A x \in {execute(Enter("throw"), P, last.input)} :
            /\ (x.ok /\ x.val.kind = "success" /\ x.val.span.end < Len(last.input)) =>
                  ~last.ok /\ last.err.kind = "ParseError"
            /\ last.ok => x.ok /\ x.val.kind = "success" /\ last.value = x.val.value

\* P.consume().run(s) threw a ParseError where P.execute(s) matches a prefix
PrefixMatchRejected ==
    /\ last.op = "run" /\ ~last.ok /\ last.err.kind = "ParseError"
    /\ heap[last.p].name = "chain"
    /\ \E P \in Consumed(last.p) \ {last.p} :
          \E x \in {execute(Enter("throw"), P, last.input)} :
              x.ok /\ x.val.kind = "success" /\ x.val.span.end < Len(last.input)

\* the parsers reachable from the parsers in todo through children arrays
\* (parser.ts 56), the parsers in todo not counted unless reached again
RECURSIVE Reached(_, _)
Reached(todo, seen) ==
    IF todo = {} THEN seen
    ELSE LET kids == UNION {{heap[p].children[i] : i \in 1..Len(heap[p].children)} : p \in todo}
         IN  Reached(kids \ seen, seen \cup kids)

Descendants(p) == Reached({p}, {})

\* C17: the canonicalization cache is append-only: a key that maps to a parser
\* maps to that parser after every step (nothing is replaced or removed), and
\* the parser stored under a key has that key as its cacheKey.
CacheAppendOnly ==
    [][/\ \A k \in DOMAIN cache : k \in DOMAIN cache' /\ cache'[k] = cache[k]
       /\ \A k \in DOMAIN cache' : heap'[cache'[k]].cacheKey = k]_vars

\* two keys are registered and a later duplicate of a registered parser was
\* discarded without touching the entry
DuplicateLeftCacheAlone ==
    /\ Cardinality(DOMAIN cache) >= 2
    /\ \E p \in Ids : Keyed(p) /\ cache[heap[p].cacheKey] # p
    /\ \A k \in DOMAIN cache : heap[cache[k]].cacheKey = k

\* C18: a parser has a cacheKey only if it is cacheable and every resolved
\* child has a cacheKey; so every descendant of a keyed parser is keyed, and a
\* parser with a non-cacheable descendant is not in the cache.
KeyOnlyIfChildrenKeyed ==
    /\ \A p \in Ids : Keyed(p) =>
          /\ heap[p].decl.cacheable
          /\ \A i \in 1..Len(heap[p].children) : Keyed(heap[p].children[i])
          /\ \A c \in Descendants(p) : Keyed(c)
    /\ \A k \in DOMAIN cache : \A c \in Descendants(cache[k]) : heap[c].decl.cacheable

\* a fully resolved cacheable combinator that got no key: one of its children
\* has a key, the other is not cacheable and has none
UnkeyedOverMixedChildren ==
    \E q \in Ids :
        /\ heap[q].decl.cacheable /\ heap[q].matcher # NoMatcher /\ ~Keyed(q)
        /\ \A k \in DOMAIN cache : cache[k] # q
        /\ \E i, j \in 1..Len(heap[q].children) :
              /\ Keyed(heap[q].children[i])
              /\ ~heap[heap[q].children[j]].decl.cacheable /\ ~Keyed(heap[q].children[j])

\* C19: after a resolve() that returns normally, the returned parser and every
\* parser reachable from it through children arrays has a matcher and is its
\* own resolve() result.
ReachableParsersCanonical ==
    (last.op = "resolve" /\ last.ok) =>
        \A c \in {last.ret} \cup Descendants(last.ret) :
            heap[c].matcher # NoMatcher /\ Canonical(c) = c

\* C20: the parser the matcher of a resolved map node schedules is the node's
\* resolved child children[0], and it has a matcher.
MapSchedulesResolvedChild ==
    \A p \in Ids : heap[p].matcher.kind = "map" =>
        /\ heap[p].matcher.args[1] = heap[p].children[1]
        /\ heap[heap[p].matcher.args[1]].matcher # NoMatcher

\* the pairs the execution in progress has completed
Done == DOMAIN eng.memo

\* C11: when the callback of p.map(f) returns the reject sentinel for a
\* successful Match of p, the Match of the map parser at that position is a
\* MatchFailure at the span of that Match, never a MatchSuccess
MapRejectIsFailure ==
    \A pair \in Done :
        LET n == heap[pair[1]].matcher
            from == <<n.args[1], pair[2]>> IN
        (/\ n.kind = "map"
         /\ eng.memo[from].kind = "success"
         /\ Apply(n.lit, eng.memo[from].value) = Reject)
            => /\ eng.memo[pair].kind = "failure"
               /\ eng.memo[pair].span = eng.memo[from].span

\* the alternative of alt parser p whose Match at position i is the Match of
\* the alt: the first one that succeeds (0: none does)
FirstSuccess(p, i) ==
    LET alts == heap[p].matcher.args
        won == {j \in 1..Len(alts) : /\ <<alts[j], i>> \in Done
                                       /\ eng.memo[<<alts[j], i>>].kind = "success"} IN
    IF won = {} THEN 0 ELSE CHOOSE j \in won : \A k \in won : j <= k

\* C12: alt attempts its alternatives at its own start position in declaration
\* order, an alternative only after all the ones before it have concluded with
\* a failure, and the Match of the alt is the Match of its first alternative
\* whenever that one succeeds
AltInDeclarationOrder ==
    /\ \A u \in eng.sched :
           u.c.k = "alt" =>
               LET alts == heap[u.c.p].matcher.args IN
               /\ u.c.j \in 1..Len(alts)
               /\ u.p = alts[u.c.j]
               /\ u.i = u.c.i
               /\ \A j \in 1..(u.c.j - 1) :
                      /\ <<alts[j], u.i>> \in Done
                      /\ eng.memo[<<alts[j], u.i>>].kind = "failure"
    /\ \A pair \in Done :
           heap[pair[1]].matcher.kind = "alt" =>
               LET alts == heap[pair[1]].matcher.args IN
               /\ <<alts[1], pair[2]>> \in Done
               /\ eng.memo[<<alts[1], pair[2]>>].kind = "success"
                      => eng.memo[pair] = eng.memo[<<alts[1], pair[2]>>]
    /\ (~eng.on /\ eng.root # 0 /\ heap[eng.root].matcher.kind = "alt"
            /\ <<heap[eng.root].matcher.args[1], 0>> \in Done
            /\ eng.memo[<<heap[eng.root].matcher.args[1], 0>>].kind = "success")
           => last.match = eng.memo[<<heap[eng.root].matcher.args[1], 0>>]

\* an alt has completed with the Match of its first alternative, and its
\* second alternative, which would have succeeded too, was never scheduled
FirstAlternativeWon ==
    \E pair \in Done :
        LET alts == heap[pair[1]].matcher.args IN
        /\ heap[pair[1]].matcher.kind = "alt"
        /\ Len(alts) = 2
        /\ alts[1] # alts[2]
        /\ FirstSuccess(pair[1], pair[2]) = 1
        /\ matchAt(heap, alts[2], eng.input, pair[2], {}).kind = "success"
        /\ \A u \in eng.sched : ~(u.c.k = "alt" /\ u.c.p = pair[1] /\ u.c.j = 2)

\* the Match of alternative j of alt parser p at position i
AltMatch(p, i, j) == eng.memo[<<heap[p].matcher.args[j], i>>]

\* C13: when an alt fails, every alternative has failed, the failure of the alt
\* is the failure of one of them, no alternative's failure ends further, and
\* every alternative declared before that one ends short of it
AltReportsFarthestFailure ==
    \A pair \in Done :
        (heap[pair[1]].matcher.kind = "alt" /\ eng.memo[pair].kind = "failure") =>
            LET p == pair[1]
                i == pair[2]
                js == 1..Len(heap[p].matcher.args) IN
            /\ \A j \in js : /\ <<heap[p].matcher.args[j], i>> \in Done
                              /\ AltMatch(p, i, j).kind = "failure"
            /\ \E j \in js :
                   /\ eng.memo[pair] = AltMatch(p, i, j)
                   /\ \A k \in js : AltMatch(p, i, k).span.end <= AltMatch(p, i, j).span.end
                   /\ \A k \in 1..(j - 1) :
                          AltMatch(p, i, k).span.end < AltMatch(p, i, j).span.end

\* an alt has failed with the failure of its second alternative, which got
\* further than the first one
SecondAlternativeFailedFurther ==
    \E pair \in Done :
        /\ heap[pair[1]].matcher.kind = "alt"
        /\ Len(heap[pair[1]].matcher.args) = 2
        /\ eng.memo[pair].kind = "failure"
        /\ AltMatch(pair[1], pair[2], 1).span.end < AltMatch(pair[1], pair[2], 2).span.end
        /\ eng.memo[pair] = AltMatch(pair[1], pair[2], 2)

\* C14: within one execution the matcher of each (parser, position) pair is
\* run at most once, and every continuation that is handed a Match for a pair
\* is handed the one Match the memo table holds for it
MatchedOncePerPair ==
    /\ \A pair \in DOMAIN eng.runs : eng.runs[pair] <= 1
    /\ \A d \in eng.got : /\ <<d.p, d.i>> \in Done
                           /\ eng.memo[<<d.p, d.i>>] = d.m
    /\ \A u \in eng.sched :
           <<u.p, u.i>> \in Done => <<u.p, u.i>> \in DOMAIN eng.runs

\* two continuations were scheduled for one pair, its matcher has run once and
\* both have been handed its Match, one of them from the memo table
PairScheduledTwice ==
    \E d1 \in eng.got, d2 \in eng.got :
        /\ d1.p = d2.p
        /\ d1.i = d2.i
        /\ d1.c # d2.c
        /\ eng.runs[<<d1.p, d1.i>>] = 1
        /\ \E u \in eng.sched : /\ u.p = d1.p
                                 /\ u.i = d1.i
                                 /\ u.c = d2.c
                                 /\ u.c.k \in {"chain2", "alt"}
                                 /\ u.c.k = "alt" => u.c.j > 1

\* C15: chain schedules its first parser where it starts and its second only
\* once the first has completed with a success, at the end of that Match's
\* span; when both succeed the Match of the chain spans both without gap and
\* its value is combine(a, b); when one fails the Match of the chain is that
\* failure and combine is not called
ChainSchedulesInOrder ==
    /\ \A u \in eng.sched :
           LET n == heap[u.c.p].matcher
               first == <<n.args[1], u.c.i>> IN
           /\ u.c.k = "chain1" => (u.p = n.args[1] /\ u.i = u.c.i)
           /\ u.c.k = "chain2" =>
                  /\ first \in Done
                  /\ eng.memo[first].kind = "success"
                  /\ u.c.a = eng.memo[first]
                  /\ u.p = n.args[2]
                  /\ u.i = eng.memo[first].span.end
    /\ \A pair \in Done :
           heap[pair[1]].matcher.kind = "chain" =>
               LET n == heap[pair[1]].matcher
                   first == <<n.args[1], pair[2]>> IN
               /\ first \in Done
               /\ IF eng.memo[first].kind = "failure"
                  THEN eng.memo[pair] = eng.memo[first] /\ pair \notin eng.combined
                  ELSE LET a == eng.memo[first]
                           second == <<n.args[2], a.span.end>> IN
                       /\ second \in Done
                       /\ IF eng.memo[second].kind = "failure"
                          THEN eng.memo[pair] = eng.memo[second] /\ pair \notin eng.combined
                          ELSE LET b == eng.memo[second] IN
                               /\ a.span.start = pair[2]
                               /\ b.span.start = a.span.end
                               /\ eng.memo[pair] =
                                      MatchSuccess(a.span.start, b.span.end,
                                                   Combine(n.lit, a.value, b.value))

\* a chain has succeeded over two parsers that each took an item
ChainJoinedTwoItems ==
    \E pair \in Done :
        /\ heap[pair[1]].matcher.kind = "chain"
        /\ eng.memo[pair].kind = "success"
        /\ eng.memo[pair].span = [start |-> 0, end |-> 2]
        /\ eng.memo[pair].value = "a-b"
        /\ pair \in eng.combined

\* how often the matcher of a pair has been run in engine state e
RunsOf(e, pair) == IF pair \in DOMAIN e.runs THEN e.runs[pair] ELSE 0

\* one turn of the loop appends what it schedules behind the units that were
\* pending and runs at most one matcher
AppendedNotInline ==
    (eng.on /\ eng'.on /\ eng'.steps = eng.steps + 1) =>
        /\ Len(eng'.queue) >= Len(eng.queue) - 1
        /\ SubSeq(eng'.queue, 1, Len(eng.queue) - 1) = Tail(eng.queue)
        /\ Cardinality({pair \in DOMAIN eng'.runs : RunsOf(eng', pair) # RunsOf(eng, pair)}) <= 1
        /\ \A pair \in DOMAIN eng'.runs : RunsOf(eng', pair) <= RunsOf(eng, pair) + 1

\* C16: the loop of an execution ends after a bounded number of turns with an
\* empty queue, a turn appends the work it schedules to the queue and runs no
\* second matcher, and whenever the queue is empty the root pair has a
\* completed Match, which is the Match execute returns
LoopEndsWithRootMatch ==
    /\ [](/\ eng.steps <= 1 + MaxKids * Len(heap) * (Len(eng.input) + 1)
          /\ (eng.root # 0 /\ ~eng.on) => eng.queue = <<>>
          /\ (eng.root # 0 /\ eng.queue = <<>>) =>
                 /\ <<eng.root, 0>> \in Done
                 /\ eng.result = eng.memo[<<eng.root, 0>>]
                 /\ ~eng.on => (last.ok /\ last.match = eng.result))
    /\ [][AppendedNotInline]_vars
====
